---- MODULE Spec2Model ----
(***************************************************************************)
(* State-machine model of PatientInfoScreen (the patient record fetch, the *)
(* diagnosis-list fetches, pull-to-refresh and the row press handlers) and  *)
(* of the date helpers formatDate / formatDateAndTime.                      *)
(*                                                                         *)
(* Encoding: a nullable value (PatientDetails | null, number | null) is a   *)
(* sequence of length 0 (null) or 1 (the value).  A string that the code    *)
(* takes apart or builds (a date, a formatted date) is a sequence of        *)
(* one-character strings.                                                   *)
(*                                                                         *)
(* Each continuation after an await (try / catch / finally) runs to its end *)
(* on the single JavaScript thread, so it is one action.  The code cancels  *)
(* no fetch: a completion that arrives after goBack still runs its handler. *)
(* User input reaches a handler only through what is rendered.              *)
(***************************************************************************)
EXTENDS Integers, Sequences, FiniteSets, TLC

\* ---------------------------------------------------------------- bounds
MaxRefresh == 2      \* onRefresh invocations in one run
MaxLen     == 2      \* longest list getPatientHistory returns
LastYear   == 2024   \* dates fed to formatDate lie in FirstYear..LastYear

FirstYear == LastYear - 1

\* ------------------------------------------------- the service's answers
ErrorMessages == {"Network Error", "Not Found"}

PatientRecords ==
  { [name |-> "Ana", phone |-> "555", email |-> "ana@x.mx",
     age |-> 30, sex |-> "F", height |-> 160] }

DateStrings == {"2024-03-05"}
TimeStrings == {"14:30"}

\* What getPatientHistory resolves with: items carry more than the screen keeps.
HistoryItems ==
  [history_id : 1..MaxLen, date : DateStrings, time : TimeStrings,
   patient_id : {7}]

RECURSIVE SeqsUpTo(_, _)
SeqsUpTo(S, n) ==
  IF n = 0 THEN {<<>>}
  ELSE LET shorter == SeqsUpTo(S, n - 1)
       IN  shorter \cup {Append(s, x) : s \in shorter, x \in S}

\* FlatList's keyExtractor is history_id: the ids of one answer are distinct.
DistinctIds(s) ==
  \A i, j \in 1..Len(s) : i # j => s[i].history_id # s[j].history_id

\* The answers tried: a history of n <= MaxLen entries, numbered 1..n, sent
\* oldest first or newest first.
Ascending(s) == \A i \in 1..Len(s) : s[i].history_id = i

Descending(s) == \A i \in 1..Len(s) : s[i].history_id = Len(s) + 1 - i

HistoryAnswers ==
  {s \in SeqsUpTo(HistoryItems, MaxLen) :
     DistinctIds(s) /\ (Ascending(s) \/ Descending(s))}

VARIABLES
  diagnoses,            \* useState<Diagnosis[]>([])
  patientDetails,       \* useState<PatientDetails | null>(null)
  loading,              \* useState(true)
  refreshing,           \* useState(false)
  pressedDiagnosisId,   \* useState<number | null>(null)
  pressAnimValue,       \* target of the press animation, in hundredths
  mounted,              \* the mount effect has run
  focused,              \* the screen is still the one shown
  patientReq,           \* the getPatientData call
  historyReqs,          \* the getPatientHistory calls, in issue order
  alerts,               \* messages handed to Alert.alert, in order
  goBackCalls,          \* number of navigation.goBack() calls
  lastPress,            \* the press event handled by the last step, if any
  fmt                   \* the date helpers' input, environment and output

vars == <<diagnoses, patientDetails, loading, refreshing, pressedDiagnosisId,
          pressAnimValue, mounted, focused, patientReq, historyReqs, alerts,
          goBackCalls, lastPress, fmt>>

viewState == <<diagnoses, patientDetails, loading, refreshing>>
pressState == <<pressedDiagnosisId, pressAnimValue>>
effects == <<alerts, goBackCalls, focused>>
requests == <<mounted, patientReq, historyReqs>>

\* ------------------------------------------------------------- requests
NewPatientReq == [status |-> "pending", data |-> <<>>, error |-> ""]

NewHistoryReq(isRefresh, isOverlap) ==
  [refresh |-> isRefresh, overlap |-> isOverlap, status |-> "pending",
   data |-> <<>>, error |-> ""]

PendingHistory == {i \in 1..Len(historyReqs) : historyReqs[i].status = "pending"}

RefreshCount == Cardinality({i \in 1..Len(historyReqs) : historyReqs[i].refresh})

NoPress == [op |-> "none", arg |-> 0]

FmtIdle == [pc |-> "idle", date |-> <<>>, time |-> <<>>, offset |-> 0, out |-> <<>>]

\* The three fields fetchPatientHistory keeps of each item, in the answer's order.
ToDiagnosis(item) ==
  [history_id |-> item.history_id, date |-> item.date, time |-> item.time]

MapDiagnoses(historyData) ==
  [i \in 1..Len(historyData) |-> ToDiagnosis(historyData[i])]

\* ----------------------------------------------------------------- Init
Init ==
  /\ diagnoses = <<>>
  /\ patientDetails = <<>>
  /\ loading = TRUE
  /\ refreshing = FALSE
  /\ pressedDiagnosisId = <<>>
  /\ pressAnimValue = 100
  /\ mounted = FALSE
  /\ focused = TRUE
  /\ patientReq = [status |-> "idle", data |-> <<>>, error |-> ""]
  /\ historyReqs = <<>>
  /\ alerts = <<>>
  /\ goBackCalls = 0
  /\ lastPress = NoPress
  /\ fmt = FmtIdle

\* --------------------------------------------------------------- actions
\* The mount effect: starts fetchPatientData and fetchPatientHistory.
Mount ==
  /\ ~mounted
  /\ mounted' = TRUE
  /\ patientReq' = NewPatientReq
  /\ historyReqs' = <<NewHistoryReq(FALSE, FALSE)>>
  /\ lastPress' = NoPress
  /\ UNCHANGED <<viewState, pressState, effects, fmt>>

\* fetchPatientData: getPatientData resolved with data.
fetchPatientDataOk(data) ==
  /\ patientReq.status = "pending"
  /\ patientReq' = [patientReq EXCEPT !.status = "ok", !.data = <<data>>]
  /\ patientDetails' = <<data>>
  /\ loading' = FALSE
  /\ lastPress' = NoPress
  /\ UNCHANGED <<diagnoses, refreshing, pressState, effects, mounted,
                 historyReqs, fmt>>

\* Variant: the finally block's setLoading(false) is missing.
fetchPatientDataFail_NoFinally(msg) ==
  /\ patientReq.status = "pending"
  /\ patientReq' = [patientReq EXCEPT !.status = "failed", !.error = msg]
  /\ alerts' = Append(alerts, msg)
  /\ goBackCalls' = goBackCalls + 1
  /\ focused' \in {FALSE, focused}
  /\ lastPress' = NoPress
  /\ UNCHANGED <<diagnoses, patientDetails, loading, refreshing, pressState,
                 mounted, historyReqs, fmt>>

\* fetchPatientData: getPatientData rejected with an Error carrying msg.
\* goBack leaves the screen unless the navigator has nothing to go back to.
fetchPatientDataFail(msg) ==
  /\ patientReq.status = "pending"
  /\ patientReq' = [patientReq EXCEPT !.status = "failed", !.error = msg]
  /\ alerts' = Append(alerts, msg)
  /\ goBackCalls' = goBackCalls + 1
  /\ focused' \in {FALSE, focused}
  /\ loading' = FALSE
  /\ lastPress' = NoPress
  /\ UNCHANGED <<diagnoses, patientDetails, refreshing, pressState, mounted,
                 historyReqs, fmt>>

\* Variant: the answer is appended to the list instead of replacing it.
fetchPatientHistoryOk_Merge(i, historyData) ==
  /\ i \in PendingHistory
  /\ historyReqs' = [historyReqs EXCEPT ![i].status = "ok", ![i].data = historyData]
  /\ diagnoses' = diagnoses \o MapDiagnoses(historyData)
  /\ refreshing' = FALSE
  /\ lastPress' = NoPress
  /\ UNCHANGED <<patientDetails, loading, pressState, effects, mounted,
                 patientReq, fmt>>

\* Variant: the list fetch shares the spinner flag with the record fetch.
fetchPatientHistoryOk_SetsLoading(i, historyData) ==
  /\ i \in PendingHistory
  /\ historyReqs' = [historyReqs EXCEPT ![i].status = "ok", ![i].data = historyData]
  /\ diagnoses' = MapDiagnoses(historyData)
  /\ refreshing' = FALSE
  /\ loading' = FALSE
  /\ lastPress' = NoPress
  /\ UNCHANGED <<patientDetails, pressState, effects, mounted, patientReq, fmt>>

\* fetchPatientHistory: call i of getPatientHistory resolved with historyData.
fetchPatientHistoryOk(i, historyData) ==
  /\ i \in PendingHistory
  /\ historyReqs' = [historyReqs EXCEPT ![i].status = "ok", ![i].data = historyData]
  /\ diagnoses' = MapDiagnoses(historyData)
  /\ refreshing' = FALSE
  /\ lastPress' = NoPress
  /\ UNCHANGED <<patientDetails, loading, pressState, effects, mounted,
                 patientReq, fmt>>

\* Variant: a list failure leaves the screen like a record failure does.
fetchPatientHistoryFail_GoBack(i, msg) ==
  /\ i \in PendingHistory
  /\ historyReqs' = [historyReqs EXCEPT ![i].status = "failed", ![i].error = msg]
  /\ alerts' = Append(alerts, msg)
  /\ goBackCalls' = goBackCalls + 1
  /\ focused' \in {FALSE, focused}
  /\ refreshing' = FALSE
  /\ lastPress' = NoPress
  /\ UNCHANGED <<diagnoses, patientDetails, loading, pressState, mounted,
                 patientReq, fmt>>

\* Variant: a list failure resets the list.
fetchPatientHistoryFail_Clears(i, msg) ==
  /\ i \in PendingHistory
  /\ historyReqs' = [historyReqs EXCEPT ![i].status = "failed", ![i].error = msg]
  /\ alerts' = Append(alerts, msg)
  /\ diagnoses' = <<>>
  /\ refreshing' = FALSE
  /\ lastPress' = NoPress
  /\ UNCHANGED <<patientDetails, loading, pressState, goBackCalls, focused,
                 mounted, patientReq, fmt>>

\* Variant: setRefreshing(false) sits in the try block, not in finally.
fetchPatientHistoryFail_NoFinally(i, msg) ==
  /\ i \in PendingHistory
  /\ historyReqs' = [historyReqs EXCEPT ![i].status = "failed", ![i].error = msg]
  /\ alerts' = Append(alerts, msg)
  /\ lastPress' = NoPress
  /\ UNCHANGED <<diagnoses, patientDetails, loading, refreshing, pressState,
                 goBackCalls, focused, mounted, patientReq, fmt>>

\* fetchPatientHistory: call i of getPatientHistory rejected with msg.
fetchPatientHistoryFail(i, msg) ==
  /\ i \in PendingHistory
  /\ historyReqs' = [historyReqs EXCEPT ![i].status = "failed", ![i].error = msg]
  /\ alerts' = Append(alerts, msg)
  /\ refreshing' = FALSE
  /\ lastPress' = NoPress
  /\ UNCHANGED <<diagnoses, patientDetails, loading, pressState, goBackCalls,
                 focused, mounted, patientReq, fmt>>

\* The FlatList, with its RefreshControl and its rows, is rendered only past
\* the loading spinner and only in the non-empty branch.
ListRendered == mounted /\ focused /\ ~loading /\ Len(diagnoses) # 0

\* onRefresh, reached through the FlatList's RefreshControl.
onRefresh ==
  /\ ListRendered
  /\ RefreshCount < MaxRefresh
  /\ refreshing' = TRUE
  /\ historyReqs' = Append(historyReqs, NewHistoryReq(TRUE, PendingHistory # {}))
  /\ lastPress' = NoPress
  /\ UNCHANGED <<diagnoses, patientDetails, loading, pressState, effects,
                 mounted, patientReq, fmt>>

RenderedIds == {diagnoses[i].history_id : i \in 1..Len(diagnoses)}

handleRowPressIn(id) ==
  /\ ListRendered
  /\ id \in RenderedIds
  /\ pressedDiagnosisId' = <<id>>
  /\ pressAnimValue' = 98
  /\ lastPress' = [op |-> "handleRowPressIn", arg |-> id]
  /\ UNCHANGED <<viewState, effects, requests, fmt>>

\* Variant: a press leaves the pressed row marked.
handleRowPress_Keeps(id) ==
  /\ ListRendered
  /\ id \in RenderedIds
  /\ lastPress' = [op |-> "handleRowPress", arg |-> 0]
  /\ UNCHANGED <<viewState, pressState, effects, requests, fmt>>

handleRowPressOut ==
  /\ ListRendered
  /\ pressedDiagnosisId' = <<>>
  /\ pressAnimValue' = 100
  /\ lastPress' = [op |-> "handleRowPressOut", arg |-> 0]
  /\ UNCHANGED <<viewState, effects, requests, fmt>>

handleRowPress(id) ==
  /\ ListRendered
  /\ id \in RenderedIds
  /\ pressedDiagnosisId' = <<>>
  /\ lastPress' = [op |-> "handleRowPress", arg |-> 0]
  /\ UNCHANGED <<viewState, pressAnimValue, effects, requests, fmt>>

Next ==
  \/ Mount
  \/ \E data \in PatientRecords : fetchPatientDataOk(data)
  \/ \E msg \in ErrorMessages : fetchPatientDataFail(msg)
  \/ \E i \in 1..(MaxRefresh + 1), s \in HistoryAnswers : fetchPatientHistoryOk(i, s)
  \/ \E i \in 1..(MaxRefresh + 1), msg \in ErrorMessages : fetchPatientHistoryFail(i, msg)
  \/ onRefresh
  \/ \E id \in 1..MaxLen : handleRowPressIn(id)
  \/ handleRowPressOut
  \/ \E id \in 1..MaxLen : handleRowPress(id)

Spec == Init /\ [][Next]_vars


(***************************************************************************)
(* The date helpers.  new Date("YYYY-MM-DD") is the instant of midnight UTC *)
(* of that day; getFullYear / getMonth / getDate read the calendar fields   *)
(* of that instant in the platform's local zone.  Instants are counted in   *)
(* minutes since 1970-01-01T00:00Z (every instant here is a whole minute).  *)
(***************************************************************************)
DigitChars == <<"0", "1", "2", "3", "4", "5", "6", "7", "8", "9">>

DigitValue(c) == (CHOOSE k \in 1..10 : DigitChars[k] = c) - 1

\* String(n) for a non-negative integer.
RECURSIVE NumberToString(_)
NumberToString(n) ==
  IF n < 10 THEN <<DigitChars[n + 1]>>
  ELSE NumberToString(n \div 10) \o <<DigitChars[(n % 10) + 1]>>

\* String.prototype.padStart with a one-character filler.
RECURSIVE padStart(_, _, _)
padStart(str, targetLength, fill) ==
  IF Len(str) >= targetLength THEN str
  ELSE padStart(<<fill>> \o str, targetLength, fill)

RECURSIVE ParseDigits(_)
ParseDigits(str) ==
  IF Len(str) = 0 THEN 0
  ELSE 10 * ParseDigits(SubSeq(str, 1, Len(str) - 1)) + DigitValue(str[Len(str)])

\* Day number (days since 1970-01-01) of a proleptic Gregorian date.
DaysFromCivil(y, m, d) ==
  LET yy  == IF m <= 2 THEN y - 1 ELSE y
      era == yy \div 400
      yoe == yy - era * 400
      mp  == IF m > 2 THEN m - 3 ELSE m + 9
      doy == (153 * mp + 2) \div 5 + d - 1
      doe == yoe * 365 + yoe \div 4 - yoe \div 100 + doy
  IN  era * 146097 + doe - 719468

\* Calendar fields of a day number.
CivilFromDays(z0) ==
  LET z   == z0 + 719468
      era == z \div 146097
      doe == z - era * 146097
      yoe == (doe - doe \div 1460 + doe \div 36524 - doe \div 146096) \div 365
      doy == doe - (365 * yoe + yoe \div 4 - yoe \div 100)
      mp  == (5 * doy + 2) \div 153
      d   == doy - (153 * mp + 2) \div 5 + 1
      m   == IF mp < 10 THEN mp + 3 ELSE mp - 9
      y   == yoe + era * 400 + (IF m <= 2 THEN 1 ELSE 0)
  IN  [year |-> y, month |-> m, day |-> d]

\* new Date(dateString) for a date-only ISO string: midnight UTC of that day.
DateParse(dateString) ==
  DaysFromCivil(ParseDigits(SubSeq(dateString, 1, 4)),
                ParseDigits(SubSeq(dateString, 6, 7)),
                ParseDigits(SubSeq(dateString, 9, 10))) * (24 * 60)

\* The local calendar fields of an instant, offset minutes east of UTC.
LocalFields(instant, offset) == CivilFromDays((instant + offset) \div (24 * 60))

formatDate(dateString) ==
  LET date  == LocalFields(DateParse(dateString), fmt.offset)
      year  == NumberToString(date.year)
      month == padStart(NumberToString(date.month), 2, "0")
      day   == padStart(NumberToString(date.day), 2, "0")
  IN  year \o <<"-">> \o month \o <<"-">> \o day

formatDateAndTime(date, time) == formatDate(date) \o <<" ">> \o time

\* ------------------------------------------- inputs of the date helpers
IsLeap(y) == (y % 4 = 0 /\ y % 100 # 0) \/ y % 400 = 0

DaysInMonth(y, m) ==
  IF m = 2 THEN (IF IsLeap(y) THEN 29 ELSE 28)
  ELSE IF m \in {4, 6, 9, 11} THEN 30 ELSE 31

IsoDate(y, m, d) ==
  padStart(NumberToString(y), 4, "0") \o <<"-">>
    \o padStart(NumberToString(m), 2, "0") \o <<"-">>
    \o padStart(NumberToString(d), 2, "0")

ValidDates ==
  UNION {{IsoDate(y, m, d) : d \in 1..DaysInMonth(y, m)} :
           y \in FirstYear..LastYear, m \in 1..12}

ClockTimes == {<<"1", "4", ":", "3", "0">>, <<"0", "0", ":", "0", "5">>}

\* Local zones, in minutes east of UTC: Mexico City, UTC, Madrid, Kolkata.
TzOffsets == {-360, 0, 60, 330}

InitFormat ==
  /\ diagnoses = <<>>
  /\ patientDetails = <<>>
  /\ loading = TRUE
  /\ refreshing = FALSE
  /\ pressedDiagnosisId = <<>>
  /\ pressAnimValue = 100
  /\ mounted = FALSE
  /\ focused = TRUE
  /\ patientReq = [status |-> "idle", data |-> <<>>, error |-> ""]
  /\ historyReqs = <<>>
  /\ alerts = <<>>
  /\ goBackCalls = 0
  /\ lastPress = NoPress
  /\ fmt \in [pc : {"ready"}, date : ValidDates, time : ClockTimes,
              offset : TzOffsets, out : {<<>>}]

callFormatDate ==
  /\ fmt.pc = "ready"
  /\ fmt' = [fmt EXCEPT !.pc = "formatDate", !.out = formatDate(fmt.date)]
  /\ UNCHANGED <<viewState, pressState, effects, requests, lastPress>>

callFormatDateAndTime ==
  /\ fmt.pc = "ready"
  /\ fmt' = [fmt EXCEPT !.pc = "formatDateAndTime",
                        !.out = formatDateAndTime(fmt.date, fmt.time)]
  /\ UNCHANGED <<viewState, pressState, effects, requests, lastPress>>

NextFormat == callFormatDate \/ callFormatDateAndTime

SpecFormat == InitFormat /\ [][NextFormat]_vars

(***************************************************************************)
(* Properties                                                              *)
(***************************************************************************)
Settled(req) == req.status \in {"ok", "failed"}

HistorySettlesAt(i) ==
  /\ i \in 1..Len(historyReqs)
  /\ historyReqs[i].status = "pending"
  /\ Settled(historyReqs'[i])

PatientSettles == patientReq.status = "pending" /\ Settled(patientReq')

\* C1: loading is true at mount and exactly while the getPatientData call has
\* not settled; it turns false when that call settles, whatever the state of
\* the list fetches; no list-fetch completion or refresh changes it; once
\* false it stays false.
C1_LoadingTracksPatientFetch ==
  /\ [](loading <=> ~Settled(patientReq))
  /\ [][ /\ (PatientSettles => ~loading')
         /\ (loading' # loading => PatientSettles /\ UNCHANGED historyReqs)
         /\ (historyReqs' # historyReqs => loading' = loading)
         /\ (~loading => ~loading') ]_vars

C1_Witness ==
  /\ ~loading
  /\ Len(historyReqs) = 1
  /\ historyReqs[1].status = "pending"
  /\ patientReq.status = "failed"

\* C2: a failing getPatientData turns loading false, raises exactly one alert
\* carrying the failure message, leaves the patient record unset and calls
\* navigation.goBack once; goBack is called for no other reason, in
\* particular not when a list fetch or refresh fails.
C2_RecordFailureExitsOnce ==
  /\ [][ /\ (patientReq.status = "pending" /\ patientReq'.status = "failed"
               => /\ loading' = FALSE
                  /\ alerts' = Append(alerts, patientReq'.error)
                  /\ patientDetails' = <<>>
                  /\ goBackCalls' = goBackCalls + 1)
         /\ (goBackCalls' # goBackCalls
               => patientReq.status = "pending" /\ patientReq'.status = "failed")
         /\ (\A i \in 1..Len(historyReqs) :
               HistorySettlesAt(i) => goBackCalls' = goBackCalls /\ focused' = focused)
       ]_vars
  /\ [](goBackCalls = IF patientReq.status = "failed" THEN 1 ELSE 0)

C2_Witness ==
  /\ patientReq.status = "failed"
  /\ goBackCalls = 1
  /\ patientDetails = <<>>
  /\ ~loading
  /\ \E i \in 1..Len(historyReqs) : historyReqs[i].status = "failed"
  /\ Len(alerts) = 2

\* C3: when a getPatientHistory call (initial or refresh) fails after an
\* earlier one succeeded, diagnoses keeps exactly the value it had,
\* refreshing turns false, one alert carrying the message is raised and the
\* screen is not left.
C3_ListFailureKeepsDiagnoses ==
  [][ \A i \in 1..Len(historyReqs) :
        ( /\ historyReqs[i].status = "pending"
          /\ historyReqs'[i].status = "failed"
          /\ \E j \in 1..Len(historyReqs) : historyReqs[j].status = "ok" )
        => /\ diagnoses' = diagnoses
           /\ refreshing' = FALSE
           /\ alerts' = Append(alerts, historyReqs'[i].error)
           /\ goBackCalls' = goBackCalls
           /\ focused' = focused
    ]_vars

C3_Witness ==
  /\ Len(historyReqs) = 2
  /\ historyReqs[1].status = "ok"
  /\ historyReqs[2].status = "failed"
  /\ Len(diagnoses) = 2
  /\ ~refreshing

\* C4: when a getPatientHistory call succeeds with s, diagnoses becomes s
\* reduced field by field: same length, same order, element k holding exactly
\* history_id, date and time of s[k], nothing of the previous list; an empty
\* s leaves diagnoses empty and raises no alert.
C4_SuccessReplacesDiagnoses ==
  [][ \A i \in 1..Len(historyReqs) :
        (historyReqs[i].status = "pending" /\ historyReqs'[i].status = "ok")
        => LET s == historyReqs'[i].data
           IN  /\ Len(diagnoses') = Len(s)
               /\ \A k \in 1..Len(s) :
                    /\ DOMAIN diagnoses'[k] = {"history_id", "date", "time"}
                    /\ diagnoses'[k].history_id = s[k].history_id
                    /\ diagnoses'[k].date = s[k].date
                    /\ diagnoses'[k].time = s[k].time
               /\ alerts' = alerts
               /\ (s = <<>> => diagnoses' = <<>>)
    ]_vars

C4_Witness ==
  /\ Len(historyReqs) = 3
  /\ historyReqs[1].status = "ok" /\ Len(historyReqs[1].data) = 2
  /\ historyReqs[2].status = "ok" /\ Len(historyReqs[2].data) = 1
  /\ historyReqs[3].status = "ok" /\ historyReqs[3].data = <<>>
  /\ diagnoses = <<>>
  /\ alerts = <<>>

\* C5: when onRefresh was invoked with an earlier fetch still in flight, then
\* once every list fetch has settled and every refresh succeeded, diagnoses
\* is the answer given to the most recently issued refresh, and refreshing
\* is false.
C5_LastIssuedRefreshWins ==
  LET n == Len(historyReqs)
  IN  ( /\ n >= 2
        /\ historyReqs[n].refresh
        /\ \E i \in 1..n : historyReqs[i].refresh /\ historyReqs[i].overlap
        /\ PendingHistory = {}
        /\ \A i \in 1..n : historyReqs[i].refresh => historyReqs[i].status = "ok" )
      => /\ diagnoses = MapDiagnoses(historyReqs[n].data)
         /\ ~refreshing

\* C6: refreshing is false at mount, is not set by the initial fetches, and
\* is true only while a getPatientHistory call started by onRefresh is
\* pending; onRefresh changes no field but refreshing, so the loaded
\* diagnoses and patient record stay in place.
C6_RefreshingOnlyDuringRefresh ==
  /\ [](refreshing =>
          \E i \in 1..Len(historyReqs) :
            historyReqs[i].refresh /\ historyReqs[i].status = "pending")
  /\ [](RefreshCount = 0 => ~refreshing)
  /\ [][ /\ (~refreshing /\ refreshing'
               => mounted /\ Len(historyReqs') = Len(historyReqs) + 1)
         /\ (mounted /\ Len(historyReqs') = Len(historyReqs) + 1
               => /\ refreshing'
                  /\ historyReqs'[Len(historyReqs')].refresh
                  /\ UNCHANGED <<diagnoses, patientDetails, loading, pressState,
                                 effects, patientReq>>)
       ]_vars

C6_Witness ==
  /\ refreshing
  /\ Len(historyReqs) = 2
  /\ Len(diagnoses) = 2
  /\ Len(patientDetails) = 1

\* C7: whenever the mounted screen, with the patient record loaded, shows an
\* empty diagnoses list (the list fetches have settled, with an empty answer
\* or a failure), the user can trigger refresh.
C7_RefreshAvailableWhenEmpty ==
  ( /\ mounted /\ focused /\ ~loading
    /\ Len(patientDetails) = 1
    /\ PendingHistory = {}
    /\ Len(diagnoses) = 0
    /\ RefreshCount < MaxRefresh )
  => ENABLED onRefresh

\* C8: press-in on row X sets pressedDiagnosisId to X; press-out, or press on
\* any row, sets it to null whichever row was pressed; it names at most one
\* row, a rendered one when it was set; no press handler touches diagnoses,
\* the patient record, loading or refreshing, or starts a fetch or a
\* navigation.
C8_PressHandlers ==
  /\ [](Len(pressedDiagnosisId) <= 1)
  /\ [][ /\ (lastPress'.op = "handleRowPressIn"
               => /\ pressedDiagnosisId' = <<lastPress'.arg>>
                  /\ lastPress'.arg \in RenderedIds)
         /\ (lastPress'.op \in {"handleRowPressOut", "handleRowPress"}
               => pressedDiagnosisId' = <<>>)
         /\ (lastPress'.op \in {"handleRowPressIn", "handleRowPressOut", "handleRowPress"}
               => UNCHANGED <<viewState, effects, requests>>)
         /\ (pressedDiagnosisId' # pressedDiagnosisId
               => lastPress'.op \in {"handleRowPressIn", "handleRowPressOut",
                                    "handleRowPress"})
       ]_vars

C8_Witness ==
  /\ lastPress = [op |-> "handleRowPress", arg |-> 0]
  /\ pressedDiagnosisId = <<>>
  /\ pressAnimValue = 98
  /\ Len(diagnoses) = 2

\* C9: for every valid date-only ISO string d and every time string t,
\* formatDate(d) is d and formatDateAndTime(d, t) is d, a space, t, whatever
\* the local UTC offset.
C9_FormatDateIsIdentity ==
  /\ (fmt.pc = "formatDate" => fmt.out = fmt.date)
  /\ (fmt.pc = "formatDateAndTime" => fmt.out = fmt.date \o <<" ">> \o fmt.time)

\* C10: the completion of getPatientData writes only the patient record and
\* loading, the completion of getPatientHistory only diagnoses and
\* refreshing; so with no refresh issued, the state after both initial
\* fetches settled is determined by their outcomes, not by their order.
C10_InitialFetchesCommute ==
  /\ [][ /\ (PatientSettles => UNCHANGED <<diagnoses, refreshing, historyReqs>>)
         /\ (\A i \in 1..Len(historyReqs) :
               HistorySettlesAt(i) => UNCHANGED <<patientDetails, loading, patientReq>>)
       ]_vars
  /\ []( ( /\ Len(historyReqs) = 1
           /\ Settled(patientReq)
           /\ Settled(historyReqs[1]) )
         => /\ patientDetails = patientReq.data
            /\ loading = FALSE
            /\ refreshing = FALSE
            /\ Len(diagnoses) = Len(historyReqs[1].data)
            /\ \A k \in 1..Len(diagnoses) :
                 diagnoses[k].history_id = historyReqs[1].data[k].history_id
            /\ goBackCalls = (IF patientReq.status = "failed" THEN 1 ELSE 0)
            /\ Len(alerts) = (IF patientReq.status = "failed" THEN 1 ELSE 0)
                             + (IF historyReqs[1].status = "failed" THEN 1 ELSE 0) )

C10_Witness ==
  /\ Len(historyReqs) = 1
  /\ historyReqs[1].status = "ok"
  /\ Len(diagnoses) = 2
  /\ patientReq.status = "ok"
  /\ Len(patientDetails) = 1

====
